---- MODULE Spec2Model ----
(***************************************************************************)
(* A model of libumockdev-preload.c: the fd -> pointer map, the path       *)
(* trapper, and the interposed socket/bind/recvmsg/open/stat/ioctl/read/   *)
(* write/close entry points with the ioctl record/replay and the script    *)
(* recording bookkeeping.                                                  *)
(*                                                                         *)
(* The specifications of the module:                                       *)
(*   Spec      a process under a testbed root (ioctl replay)               *)
(*   SpecRec   a process recording ioctls or a script                      *)
(*   SpecFail  a process whose real socket() and open() may fail           *)
(*   SpecPlain a process with nothing configured, every entry point        *)
(*   SpecMap   the fd_map functions applied to one registry                *)
(*   SpecTrap  trap_path applied to one (environment, path) input          *)
(*   SpecStat  the stat family over the file types of the shadow tree      *)
(*   SpecSock  socket, bind and recvmsg under a testbed root               *)
(*   SpecOpen  open under every configuration of root and recording        *)
(*   SpecEsc   the escaping loop of script_record_op on one buffer         *)
(*   SpecLong  open and stat of paths about as long as the path buffer     *)
(***************************************************************************)
EXTENDS Integers, Sequences, FiniteSets, TLC

VARIABLES
    \* the process environment and the files it finds (fixed during a run)
    env,
    \* the kernel's descriptor table of the process, and the monotonic clock
    os_fd, clock,
    \* the static registries
    wrapped_sockets, ioctl_wrapped_fds, script_dev_logfile_map,
    script_dev_logfile_map_inited, script_recorded_fds,
    \* malloc()ed struct ioctl_fd_info and struct script_record_info
    heap,
    \* the global ioctl recording state, and the record file on disk
    ioctl_record_fd, ioctl_record_log, ioctl_record, record_rdev, record_file,
    \* the script log file on disk
    script_file,
    \* what the caller knows of each descriptor it opened on a script-recorded
    \* device: the kind and the time of the last operation it had recorded
    fd_prev,
    \* running / aborted / exited / crashed
    pc,
    \* the last interposed call: its arguments, the real call it made, its result
    call,
    \* how often a real call may still fail to make a descriptor, and the
    \* recorded I/O calls so far
    fail_left, n_io,
    \* SpecMap: one fd_map and the calls made on it
    t, t_log, t_abort,
    \* SpecTrap: one trap_path call
    tp_in, tp_out,
    \* SpecEsc: one buffer given to the escaping loop of script_record_op, and
    \* what the loop wrote
    esc_in, esc_out

procVars ==
    <<env, os_fd, clock, wrapped_sockets, ioctl_wrapped_fds, script_dev_logfile_map,
      script_dev_logfile_map_inited, script_recorded_fds, heap, ioctl_record_fd,
      ioctl_record_log, ioctl_record, record_rdev, record_file, script_file, fd_prev, pc, call,
      fail_left, n_io>>
mapVars == <<t, t_log, t_abort>>
trapVars == <<tp_in, tp_out>>
escVars == <<esc_in, esc_out>>
vars == <<procVars, mapVars, trapVars, escVars>>

NULL == 0

(***************************************************************************)
(* fd -> pointer map                                                       *)
(***************************************************************************)
FD_MAP_MAX == 50

Slots == 1..FD_MAP_MAX

\* a static fd_map: zero-initialised
fd_map_empty ==
    [set |-> [i \in Slots |-> 0], fd |-> [i \in Slots |-> 0], data |-> [i \in Slots |-> NULL]]

\* the slot the loop of fd_map_add stops at: the first one not set (0: none)
first_free(map) ==
    IF \E i \in Slots : map.set[i] = 0
    THEN CHOOSE i \in Slots : map.set[i] = 0 /\ \A j \in 1..(i - 1) : map.set[j] # 0
    ELSE 0

\* the slot the loops of fd_map_remove and fd_map_get stop at: the first one
\* that is set and holds fd (0: none)
first_match(map, fd) ==
    IF \E i \in Slots : map.set[i] # 0 /\ map.fd[i] = fd
    THEN CHOOSE i \in Slots :
            /\ map.set[i] # 0 /\ map.fd[i] = fd
            /\ \A j \in 1..(i - 1) : ~(map.set[j] # 0 /\ map.fd[j] = fd)
    ELSE 0

\* mutant: an overflowing add is dropped silently
fd_map_add_silent(map, fd, data) ==
    LET i == first_free(map) IN
    IF i = 0 THEN [map |-> map, abort |-> FALSE]
    ELSE [map |-> [set |-> [map.set EXCEPT ![i] = 1],
                   fd |-> [map.fd EXCEPT ![i] = fd],
                   data |-> [map.data EXCEPT ![i] = data]],
          abort |-> FALSE]

fd_map_add(map, fd, data) ==
    LET i == first_free(map) IN
    IF i = 0 THEN [map |-> map, abort |-> TRUE]
    ELSE [map |-> [set |-> [map.set EXCEPT ![i] = 1],
                   fd |-> [map.fd EXCEPT ![i] = fd],
                   data |-> [map.data EXCEPT ![i] = data]],
          abort |-> FALSE]

fd_map_remove(map, fd) ==
    LET i == first_match(map, fd) IN
    IF i = 0 THEN [map |-> map, abort |-> TRUE]
    ELSE [map |-> [map EXCEPT !.set[i] = 0], abort |-> FALSE]

\* mutant: the lookup compares the fd field only and forgets the set flag
fd_map_get_stale(map, fd) ==
    IF \E i \in Slots : map.fd[i] = fd
    THEN LET i == CHOOSE i \in Slots : map.fd[i] = fd /\ \A j \in 1..(i - 1) : map.fd[j] # fd
         IN  [found |-> 1, data |-> map.data[i]]
    ELSE [found |-> 0, data |-> NULL]

fd_map_get(map, fd) ==
    LET i == first_match(map, fd) IN
    IF i = 0 THEN [found |-> 0, data |-> NULL]
    ELSE [found |-> 1, data |-> map.data[i]]

\* number of present entries
num_set(map) == Cardinality({i \in Slots : map.set[i] # 0})

(***************************************************************************)
(* Path trapper                                                            *)
(*                                                                         *)
(* A C string is a short literal head followed by `extra` filler           *)
(* characters, so that lengths near the buffer size can be stated; the     *)
(* testbed root (the value of $UMOCKDEV_DIR) matters by its length only.   *)
(***************************************************************************)
PATH_MAX == 4096

\* the length of a testbed root of ordinary size
ShortRootLen == 5

\* sizeof(buf) of trap_path
buf_size == PATH_MAX * 2

Filler == "a"
NUL == ""

strlen(s) == Len(s.str) + s.extra

\* s[i - 1] in C: NUL at and after the terminator
char_at(s, i) ==
    IF i <= Len(s.str) THEN s.str[i]
    ELSE IF i <= strlen(s) THEN Filler
    ELSE NUL

\* strncmp(s, lit, n) == 0, for a literal of at least n characters
strncmp_eq(s, lit, n) == \A i \in 1..n : char_at(s, i) = lit[i]

\* strcmp(s, lit) == 0
strcmp_eq(s, lit) == \A i \in 1..(Len(lit) + 1) : char_at(s, i) = (IF i <= Len(lit) THEN lit[i] ELSE NUL)

lit_dev_slash == <<"/", "d", "e", "v", "/">>
lit_dev == <<"/", "d", "e", "v">>
lit_sys_slash == <<"/", "s", "y", "s", "/">>
lit_sys == <<"/", "s", "y", "s">>
lit_disabled == <<"/", "d", "i", "s", "a", "b", "l", "e", "d">>

\* what trap_path hands back: the caller's own pointer, the static buffer
\* (holding the root followed by the path), or NULL with errno set
ret_path(path) == [ret |-> "path", path |-> path, root_len |-> 0, errno |-> "unchanged", ub |-> FALSE]
ret_buf(prefix_len, path, ub) ==
    [ret |-> "buf", path |-> path, root_len |-> prefix_len, errno |-> "unchanged", ub |-> ub]
ret_null(path) == [ret |-> "NULL", path |-> path, root_len |-> 0, errno |-> "ENAMETOOLONG", ub |-> FALSE]

\* a NULL path argument, and getenv() returning NULL
null_path == [null |-> TRUE, str |-> <<>>, extra |-> 0]
null_prefix == [null |-> TRUE, len |-> 0]

\* no call made yet
no_call == [ret |-> "none", path |-> null_path, root_len |-> 0, errno |-> "unchanged", ub |-> FALSE]
tp_idle == [prefix |-> null_prefix, path |-> null_path, disabled |-> FALSE, shadow |-> FALSE]

\* mutant: the length check is made before the path is known to be trapped
trap_path_len_first(prefix, path, disabled, shadow) ==
    IF path.null THEN ret_path(path)
    ELSE IF prefix.null THEN ret_path(path)
    ELSE IF strlen(path) + prefix.len >= buf_size THEN ret_null(path)
    ELSE LET is_dev == strncmp_eq(path, lit_dev_slash, 5) \/ strcmp_eq(path, lit_dev)
             is_sys == strncmp_eq(path, lit_sys_slash, 5) \/ strcmp_eq(path, lit_sys)
         IN  IF ~is_dev /\ ~is_sys THEN ret_path(path)
             ELSE IF disabled THEN ret_path(path)
             ELSE IF is_dev /\ ~shadow THEN ret_path(path)
             ELSE ret_buf(prefix.len, path, FALSE)

\* mutant: the marker <root>/disabled is looked for before the lengths are
\* taken
trap_path_marker_first(prefix, path, disabled, shadow) ==
    IF path.null THEN ret_path(path)
    ELSE IF prefix.null THEN ret_path(path)
    ELSE LET check_exist == strncmp_eq(path, lit_dev_slash, 5) \/ strcmp_eq(path, lit_dev)
             is_sys == strncmp_eq(path, lit_sys_slash, 5) \/ strcmp_eq(path, lit_sys)
             overflow == prefix.len + Len(lit_disabled) + 1 > buf_size
         IN  IF ~check_exist /\ ~is_sys THEN ret_path(path)
             ELSE IF disabled THEN [ret_path(path) EXCEPT !.ub = overflow]
             ELSE IF strlen(path) + prefix.len >= buf_size THEN ret_null(path)
             ELSE IF check_exist /\ ~shadow THEN [ret_path(path) EXCEPT !.ub = overflow]
             ELSE ret_buf(prefix.len, path, overflow)

\* prefix: the value of getenv("UMOCKDEV_DIR"), NULL or [len |-> its length];
\* disabled: path_exists("<root>/disabled") == 0;
\* shadow: path_exists("<root><path>") == 0.
\* ub: strcpy(buf + prefix_len, "/disabled") wrote past the end of buf.
trap_path(prefix, path, disabled, shadow) ==
    IF path.null THEN ret_path(path)
    ELSE IF prefix.null THEN ret_path(path)
    ELSE LET check_exist == strncmp_eq(path, lit_dev_slash, 5) \/ strcmp_eq(path, lit_dev)
             is_sys == strncmp_eq(path, lit_sys_slash, 5) \/ strcmp_eq(path, lit_sys)
             path_len == strlen(path)
             prefix_len == prefix.len
             overflow == prefix_len + Len(lit_disabled) + 1 > buf_size
         IN  IF ~check_exist /\ ~is_sys THEN ret_path(path)
             ELSE IF path_len + prefix_len >= buf_size THEN ret_null(path)
             ELSE IF disabled THEN [ret_path(path) EXCEPT !.ub = overflow]
             ELSE IF check_exist /\ ~shadow THEN [ret_path(path) EXCEPT !.ub = overflow]
             ELSE ret_buf(prefix_len, path, overflow)

(***************************************************************************)
(* The process: its environment, the kernel below it, the heap             *)
(***************************************************************************)
\* the kernel hands out the lowest free descriptor of FirstFd .. FirstFd + MaxFd - 1
FirstFd == 3
MaxFd == 2
\* real calls that fail to make a descriptor, recorded I/O calls, clock ticks,
\* and nodes of the recording tree, at most
MaxFail == 2
MaxIo == 2
MaxTicks == 1
MaxTree == 2

Fds == FirstFd..(FirstFd + MaxFd - 1)
\* what a caller may pass as a descriptor
FdArgs == Fds \cup {-1}

\* the two device nodes the process opens: /dev/a has a shadow file in the
\* testbed, /dev/b has none
path_a == [null |-> FALSE, str |-> <<"/", "d", "e", "v", "/", "a">>, extra |-> 0]
path_b == [null |-> FALSE, str |-> <<"/", "d", "e", "v", "/", "b">>, extra |-> 0]
sys_path == [null |-> FALSE, str |-> <<"/", "s", "y", "s", "/", "x">>, extra |-> 0]
OpenPaths == {path_a, path_b}
StatPaths == {path_a, path_b, sys_path}

\* st_rdev of what a descriptor kind refers to: the real /dev/a and /dev/b
\* are char devices 1 and 2, everything else is no device
rdev_of(kind) == CASE kind = "dev_a" -> 1 [] kind = "dev_b" -> 2 [] OTHER -> 0

\* the ioctl tree in the testbed's sidecar file of /dev/a
SidecarTree ==
    << [req |-> 1, arg |-> 0, res |-> 7],
       [req |-> 2, arg |-> 0, res |-> -2] >>

\* a record file left by an earlier session
OldRecordFile == << <<2, 0, 5>> >>

\* environments: $UMOCKDEV_DIR (prefix), the sidecar file <root>/ioctl//dev/a
\* (none, invalid, valid), the marker <root>/disabled, $UMOCKDEV_IOCTL_RECORD_DEV
\* (unset, or the number of /dev/b), $UMOCKDEV_IOCTL_RECORD_FILE, and
\* $UMOCKDEV_SCRIPT_RECORD_DEV_0 / _FILE_0 (unset, or /dev/b and its log)
AllEnvs ==
    [prefix : {null_prefix, [null |-> FALSE, len |-> ShortRootLen]},
     sidecar : {"none", "invalid", "valid"},
     disabled : {FALSE},
     rec_dev_set : BOOLEAN, rec_dev : {rdev_of("dev_b")},
     rec_file_set : BOOLEAN,
     script_set : BOOLEAN, script_dev : {rdev_of("dev_b")}]

\* nothing configured
plain_env ==
    [prefix |-> null_prefix, sidecar |-> "none", disabled |-> FALSE,
     rec_dev_set |-> FALSE, rec_dev |-> rdev_of("dev_b"), rec_file_set |-> FALSE,
     script_set |-> FALSE, script_dev |-> rdev_of("dev_b")]

\* with a testbed root: each sidecar file, and the recording variable beside
\* a valid one
ReplayEnvs ==
    { e \in AllEnvs :
        /\ ~e.prefix.null /\ ~e.script_set
        /\ e.rec_dev_set = e.rec_file_set
        /\ e.rec_dev_set => e.sidecar = "valid" }

\* without a testbed root: the ioctl recording variables (the file set or
\* missing), or the script recording ones
RecEnvs ==
    { e \in AllEnvs :
        /\ e.prefix.null /\ e.sidecar = "none"
        /\ e.rec_dev_set # e.script_set
        /\ e.rec_file_set => e.rec_dev_set }

\* path_exists() of the shadow path of `path`
fs_shadow(path) == path = path_a

\* dev_of_fd(): fstat() fails on a descriptor that is not open
dev_of_fd(fd) == IF fd \in Fds THEN rdev_of(os_fd[fd]) ELSE 0

\* what a real descriptor-creating call may return: the lowest free
\* descriptor, or -1 (EMFILE, ENOENT, ...)
lowest_free ==
    IF \E fd \in Fds : os_fd[fd] = "closed"
    THEN CHOOSE fd \in Fds : os_fd[fd] = "closed" /\ \A g \in Fds : g < fd => os_fd[g] # "closed"
    ELSE -1
RealNewFd ==
    (IF lowest_free # -1 THEN {lowest_free} ELSE {}) \cup (IF fail_left > 0 THEN {-1} ELSE {})

is_open(fd) == fd \in Fds /\ os_fd[fd] # "closed"

\* the heap: pointers 1 .. NPtr, each a struct ioctl_fd_info (tree, last) or a
\* struct script_record_info (time, op, and what has been written to its
\* stream log), live or
\* freed; what a freed block holds is indeterminate, and malloc() hands it
\* out again
NPtr == 2 * MaxFd + MaxFail + 1
Ptrs == 1..NPtr
time_zero == [sec |-> 0, nsec |-> 0]
free_block ==
    [kind |-> "free", live |-> FALSE, tree |-> <<>>, last |-> 0, time |-> time_zero, op |-> 0,
     log |-> <<>>]
malloc(h) == CHOOSE p \in Ptrs : ~h[p].live /\ \A q \in Ptrs : q < p => h[q].live

(***************************************************************************)
(* The ioctl tree (ioctl_tree.h): a tree is the sequence of its nodes, NULL *)
(* the empty one; a node is (request, argument, result); a file holds one  *)
(* line (a triple) per node.                                               *)
(***************************************************************************)
KnownRequests == {1, 2}

ioctl_tree_read(f) == [i \in 1..Len(f) |-> [req |-> f[i][1], arg |-> f[i][2], res |-> f[i][3]]]

\* written at the stream's position, which for "a+" is the end of the file
ioctl_tree_write(f, tree) == f \o [i \in 1..Len(tree) |-> <<tree[i].req, tree[i].arg, tree[i].res>>]

\* NULL for a request the tree has no type for
ioctl_tree_new_from_bin(request, arg, result) ==
    IF request \in KnownRequests THEN <<[req |-> request, arg |-> arg, res |-> result]>> ELSE <<>>

ioctl_tree_insert(tree, node) == IF tree = <<>> THEN tree ELSE tree \o node

\* the nodes after `last`, wrapping round, in the order they are tried
exec_order(tree, last) == [k \in 1..Len(tree) |-> ((last + k - 1) % Len(tree)) + 1]

\* the matched node (0: NULL) and what is left in *ret
ioctl_tree_execute(tree, last, request, arg, result_in) ==
    LET ord == exec_order(tree, last)
        hit(k) == tree[ord[k]].req = request /\ tree[ord[k]].arg = arg
    IN  IF \E k \in 1..Len(tree) : hit(k)
        THEN LET k == CHOOSE k \in 1..Len(tree) : hit(k) /\ \A j \in 1..(k - 1) : ~hit(j)
             IN  [node |-> ord[k], result |-> tree[ord[k]].res]
        ELSE [node |-> 0, result |-> result_in]

(***************************************************************************)
(* ioctl recording and emulation: the static helpers                       *)
(***************************************************************************)
\* "unhandled" of ioctl_emulate
UNHANDLED == -2

\* mutant: a descriptor that is being recorded stays the active one
ioctl_record_open_keep_first(fd, dev) ==
    LET same == [rdev |-> record_rdev, fd |-> ioctl_record_fd, log |-> ioctl_record_log,
                 tree |-> ioctl_record, exit |-> FALSE]
        rdev == IF record_rdev = -1
                THEN (IF env.rec_dev_set THEN env.rec_dev ELSE 0)
                ELSE record_rdev
    IN  IF fd < 0 THEN same
        ELSE IF rdev = 0 THEN [same EXCEPT !.rdev = rdev]
        ELSE IF dev # rdev THEN [same EXCEPT !.rdev = rdev]
        ELSE IF ioctl_record_fd >= 0 THEN [same EXCEPT !.rdev = rdev]
        ELSE IF ioctl_record_log # NULL THEN [same EXCEPT !.rdev = rdev, !.fd = fd]
        ELSE IF ~env.rec_file_set THEN [same EXCEPT !.rdev = rdev, !.fd = fd, !.exit = TRUE]
        ELSE IF ~env.prefix.null THEN [same EXCEPT !.rdev = rdev, !.fd = fd, !.exit = TRUE]
        ELSE [rdev |-> rdev, fd |-> fd, log |-> 1, tree |-> ioctl_tree_read(record_file),
              exit |-> FALSE]

\* ioctl_record_open(fd), where dev is what dev_of_fd(fd) gives: the new
\* record_rdev, ioctl_record_fd, ioctl_record_log, ioctl_record and whether
\* exit(1) was called
ioctl_record_open(fd, dev) ==
    LET same == [rdev |-> record_rdev, fd |-> ioctl_record_fd, log |-> ioctl_record_log,
                 tree |-> ioctl_record, exit |-> FALSE]
        rdev == IF record_rdev = -1
                THEN (IF env.rec_dev_set THEN env.rec_dev ELSE 0)
                ELSE record_rdev
    IN  IF fd < 0 THEN same
        ELSE IF rdev = 0 THEN [same EXCEPT !.rdev = rdev]
        ELSE IF dev # rdev THEN [same EXCEPT !.rdev = rdev]
        ELSE IF ioctl_record_log # NULL THEN [same EXCEPT !.rdev = rdev, !.fd = fd]
        ELSE IF ~env.rec_file_set THEN [same EXCEPT !.rdev = rdev, !.fd = fd, !.exit = TRUE]
        ELSE IF ~env.prefix.null THEN [same EXCEPT !.rdev = rdev, !.fd = fd, !.exit = TRUE]
        ELSE [rdev |-> rdev, fd |-> fd, log |-> 1, tree |-> ioctl_tree_read(record_file),
              exit |-> FALSE]

\* mutant: the tree is written at the end of the file as it is
ioctl_record_close_append(file, tree) ==
    IF tree # <<>> THEN ioctl_tree_write(file, tree) ELSE file

\* ioctl_record_close(): the record file afterwards (rewind, ftruncate to 0,
\* the whole tree written, fflush)
ioctl_record_close(file, tree) ==
    IF tree # <<>> THEN ioctl_tree_write(<<>>, tree) ELSE file

\* mutant: without the handling of the initial node
record_ioctl_no_root(request, arg, result) ==
    LET node == ioctl_tree_new_from_bin(request, arg, result)
    IN  IF ioctl_record_log = NULL THEN [tree |-> ioctl_record, abort |-> TRUE]
        ELSE IF node = <<>> THEN [tree |-> ioctl_record, abort |-> FALSE]
        ELSE [tree |-> ioctl_tree_insert(ioctl_record, node), abort |-> FALSE]

\* record_ioctl(): the recording tree afterwards, and whether the assertion
\* on ioctl_record_log failed
record_ioctl(request, arg, result) ==
    LET node == ioctl_tree_new_from_bin(request, arg, result)
        inserted == ioctl_tree_insert(ioctl_record, node)
    IN  IF ioctl_record_log = NULL THEN [tree |-> ioctl_record, abort |-> TRUE]
        ELSE IF node = <<>> THEN [tree |-> ioctl_record, abort |-> FALSE]
        ELSE [tree |-> (IF ioctl_record = <<>> THEN node ELSE inserted), abort |-> FALSE]

\* mutant: a sidecar file without a tree is taken as no sidecar file
ioctl_wrap_open_degrade(map, h, fd, dev_path) ==
    IF ~strncmp_eq(dev_path, lit_dev_slash, 5) THEN [map |-> map, heap |-> h, pc |-> "run"]
    ELSE LET fdinfo == malloc(h)
             blk(tree) == [free_block EXCEPT !.kind = "fdinfo", !.live = TRUE, !.tree = tree]
             a == fd_map_add(map, fd, fdinfo)
             sidecar == IF dev_path = path_a THEN env.sidecar ELSE "none"
         IN  IF a.abort THEN [map |-> a.map, heap |-> [h EXCEPT ![fdinfo] = blk(<<>>)], pc |-> "aborted"]
             ELSE IF sidecar \in {"none", "invalid"}
                  THEN [map |-> a.map, heap |-> [h EXCEPT ![fdinfo] = blk(<<>>)], pc |-> "run"]
             ELSE [map |-> a.map, heap |-> [h EXCEPT ![fdinfo] = blk(ioctl_tree_read(
                       [i \in 1..Len(SidecarTree) |->
                           <<SidecarTree[i].req, SidecarTree[i].arg, SidecarTree[i].res>>]))],
                   pc |-> "run"]

\* ioctl_wrap_open(fd, dev_path) on registry map and heap h: the new registry
\* and heap, and how the process goes on (run, aborted, exited)
ioctl_wrap_open(map, h, fd, dev_path) ==
    IF ~strncmp_eq(dev_path, lit_dev_slash, 5) THEN [map |-> map, heap |-> h, pc |-> "run"]
    ELSE LET fdinfo == malloc(h)
             blk(tree) == [free_block EXCEPT !.kind = "fdinfo", !.live = TRUE, !.tree = tree]
             a == fd_map_add(map, fd, fdinfo)
             sidecar == IF dev_path = path_a THEN env.sidecar ELSE "none"
         IN  IF a.abort THEN [map |-> a.map, heap |-> [h EXCEPT ![fdinfo] = blk(<<>>)], pc |-> "aborted"]
             ELSE IF sidecar = "none"
                  THEN [map |-> a.map, heap |-> [h EXCEPT ![fdinfo] = blk(<<>>)], pc |-> "run"]
             ELSE IF sidecar = "invalid"
                  THEN [map |-> a.map, heap |-> [h EXCEPT ![fdinfo] = blk(<<>>)], pc |-> "exited"]
             ELSE [map |-> a.map, heap |-> [h EXCEPT ![fdinfo] = blk(ioctl_tree_read(
                       [i \in 1..Len(SidecarTree) |->
                           <<SidecarTree[i].req, SidecarTree[i].arg, SidecarTree[i].res>>]))],
                   pc |-> "run"]

\* ioctl_emulate(fd, request, arg) on heap h: the result (UNHANDLED: none)
\* and the heap with the cursor moved
ioctl_emulate(h, fd, request, arg) ==
    LET g == fd_map_get(ioctl_wrapped_fds, fd) IN
    IF g.found = 1
    THEN LET x == ioctl_tree_execute(h[g.data].tree, h[g.data].last, request, arg, UNHANDLED)
         IN  [result |-> x.result,
              heap |-> IF x.node # 0 THEN [h EXCEPT ![g.data].last = x.node] ELSE h]
    ELSE [result |-> UNHANDLED, heap |-> h]

(***************************************************************************)
(* script recording: the static helpers                                    *)
(***************************************************************************)
\* the pointer to the log file name kept in script_dev_logfile_map
LogName == 1

\* bytes of the characters used in a script
Caret == 94
Newline == 10
Space == 32
OpRead == 114
OpWrite == 119
Digit0 == 48

\* init_script_dev_logfile_map(): the map afterwards
init_script_dev_logfile_map(map) ==
    IF env.script_set THEN fd_map_add(map, env.script_dev, LogName).map ELSE map

\* update_msec(tm) at time now: the milliseconds between the two
update_msec(tm, now) ==
    (now.sec - tm.sec) * 1000 + (now.nsec \div 1000000) - (tm.nsec \div 1000000)

\* "%lu"
RECURSIVE decimal(_)
decimal(n) == IF n < 10 THEN <<Digit0 + n>> ELSE decimal(n \div 10) \o <<Digit0 + (n % 10)>>

\* the escaping loop has not run
not_written == [done |-> FALSE, body |-> <<>>]

\* the loop with cur a plain (signed) char pointer: a byte above 127 is
\* negative, so below 32
RECURSIVE escape_signed(_)
escape_signed(buf) ==
    IF buf = <<>> THEN <<>>
    ELSE LET c == Head(buf) IN
         (IF c < 32 \/ c > 127 THEN <<Caret, (c + 64) % 256>>
          ELSE IF c = Caret THEN <<Caret, c>>
          ELSE <<c>>) \o escape_signed(Tail(buf))

\* the loop of script_record_op over the bytes of buf
RECURSIVE escape(_)
escape(buf) ==
    IF buf = <<>> THEN <<>>
    ELSE LET c == Head(buf) IN
         (IF c < 32 THEN <<Caret, c + 64>>
          ELSE IF c = Caret THEN <<Caret, c>>
          ELSE <<c>>) \o escape(Tail(buf))

\* what script_record_op(op, fd, buf, size) writes to the log of srinfo, at
\* time now
script_output(srinfo, op, buf, size, now) ==
    LET delta == update_msec(srinfo.time, now) IN
    (IF delta > 0 \/ srinfo.op # op
     THEN (IF srinfo.op # 0 THEN <<Newline>> ELSE <<>>) \o <<op, Space>> \o decimal(delta) \o <<Space>>
     ELSE <<>>) \o escape(SubSeq(buf, 1, size))

(***************************************************************************)
(* The interposed entry points                                             *)
(***************************************************************************)
no_msg == [name |-> "none", family |-> "none", pid |-> 0, groups |-> 0, namelen |-> "none",
           cred |-> "none", uid |-> 0]
no_st == [fmt |-> {}, sticky |-> FALSE, rdev |-> 0, link |-> "none"]
no_arg == [ptr |-> "none", root_len |-> 0, path |-> null_path]

\* a call that has not been made
\* a descriptor the caller has not opened on a script-recorded device
not_recorded == [rec |-> FALSE, op |-> 0, time |-> time_zero]

no_op ==
    [op |-> "none", fd |-> -1, args |-> <<>>, path |-> no_arg, real |-> FALSE,
     real_args |-> <<>>, real_path |-> no_arg, real_ret |-> 0, ret |-> 0,
     msg |-> no_msg, real_msg |-> no_msg, st |-> no_st, real_st |-> no_st,
     active |-> FALSE]

\* the record of a call: op(args) on descriptor fd
a_call(op, fd, args) == [no_op EXCEPT !.op = op, !.fd = fd, !.args = args]

\* the real function was called with real_args and returned r, which the
\* wrapper returned as ret
with_real(c, real_args, r, ret) ==
    [c EXCEPT !.real = TRUE, !.real_args = real_args, !.real_ret = r, !.ret = ret]

sockVars == <<wrapped_sockets>>
ioctlVars == <<ioctl_wrapped_fds>>
recVars == <<ioctl_record_fd, ioctl_record_log, ioctl_record, record_rdev, record_file>>
scriptVars ==
    <<script_dev_logfile_map, script_dev_logfile_map_inited, script_recorded_fds, script_file, fd_prev>>
otherVars == <<env, mapVars, trapVars, escVars>>

\* the kind of descriptor the real socket() makes
sock_kind(domain) == IF domain = "AF_UNIX" THEN "unix" ELSE "socket"

\* socket(domain, type, protocol)
Socket(domain, type, protocol) ==
    /\ pc = "run"
    /\ \E fd \in RealNewFd :
        LET wrap == domain = "AF_NETLINK" /\ protocol = "NETLINK_KOBJECT_UEVENT"
            real_args == IF wrap THEN <<"AF_UNIX", type, "0">> ELSE <<domain, type, protocol>>
            a == fd_map_add(wrapped_sockets, fd, NULL)
        IN  /\ os_fd' = IF fd # -1 THEN [os_fd EXCEPT ![fd] = sock_kind(real_args[1])] ELSE os_fd
            /\ fail_left' = IF fd = -1 THEN fail_left - 1 ELSE fail_left
            /\ wrapped_sockets' = IF wrap THEN a.map ELSE wrapped_sockets
            /\ pc' = IF wrap /\ a.abort THEN "aborted" ELSE "run"
            /\ call' = with_real(a_call("socket", -1, <<domain, type, protocol>>), real_args, fd, fd)
    /\ UNCHANGED <<clock, ioctlVars, recVars, scriptVars, heap, n_io, otherVars>>

\* bind(sockfd, addr, addrlen)
Bind(sockfd, addr) ==
    /\ pc = "run"
    /\ LET wrap == fd_map_get(wrapped_sockets, sockfd).found = 1 /\ ~env.prefix.null
           real_addr == IF wrap THEN "sockaddr_un:<root>/event<fd>" ELSE addr
           \* the address has to be of the socket's family
           r == IF is_open(sockfd) /\ os_fd[sockfd] = "unix" /\ wrap THEN 0
                ELSE IF is_open(sockfd) /\ os_fd[sockfd] = "socket" /\ ~wrap THEN 0
                ELSE -1
       IN  call' = with_real(a_call("bind", sockfd, <<sockfd, addr>>), <<sockfd, real_addr>>, r, r)
    /\ UNCHANGED <<os_fd, clock, sockVars, ioctlVars, recVars, scriptVars, heap, pc, fail_left, n_io, otherVars>>

\* what the real recvmsg() stores for a datagram from an unprivileged local sender
real_sender(has_name, has_cmsg) ==
    [name |-> IF has_name THEN "set" ELSE "NULL", family |-> "AF_UNIX", pid |-> 0, groups |-> 0,
     namelen |-> "sizeof(sockaddr_un)",
     cred |-> IF has_cmsg THEN "set" ELSE "NULL", uid |-> 1000]

\* recvmsg(sockfd, msg, flags); has_name: msg->msg_name is a buffer, has_cmsg:
\* a control message came with the datagram.  The real recvmsg fails, or
\* receives a datagram of 0 bytes or of 1 byte.
Recvmsg(sockfd, has_name, has_cmsg) ==
    /\ pc = "run"
    /\ \E r \in (IF is_open(sockfd) /\ os_fd[sockfd] \in {"unix", "socket"} THEN {-1, 0, 1} ELSE {-1}) :
        LET rm == IF r >= 0 THEN real_sender(has_name, has_cmsg) ELSE no_msg
            forge == fd_map_get(wrapped_sockets, sockfd).found = 1 /\ r > 0
            m == [rm EXCEPT !.family = "AF_NETLINK", !.pid = 0, !.groups = 2,
                            !.namelen = "sizeof(pointer)",
                            !.uid = IF has_cmsg THEN 0 ELSE rm.uid]
            c == with_real(a_call("recvmsg", sockfd, <<sockfd>>), <<sockfd>>, r, r)
        IN  \* sender is msg->msg_name: written through even when it is NULL
            /\ pc' = IF forge /\ ~has_name THEN "crashed" ELSE "run"
            /\ call' = [c EXCEPT !.real_msg = rm, !.msg = IF forge /\ has_name THEN m ELSE rm]
    /\ UNCHANGED <<os_fd, clock, sockVars, ioctlVars, recVars, scriptVars, heap, fail_left, n_io, otherVars>>

\* what the real open() of p opens
open_kind(tr, path) ==
    IF tr.ret = "buf" THEN "shadow"
    ELSE IF path = path_a THEN "dev_a" ELSE "dev_b"

\* script_record_open(fd) on heap h, where dev is what dev_of_fd(fd) gives
script_record_open(h, fd, dev) ==
    LET devmap == IF ~script_dev_logfile_map_inited
                  THEN init_script_dev_logfile_map(script_dev_logfile_map)
                  ELSE script_dev_logfile_map
        same == [devmap |-> devmap, fds |-> script_recorded_fds, heap |-> h,
                 file |-> script_file, pc |-> "run", opened |-> FALSE]
        srinfo == malloc(h)
        a == fd_map_add(script_recorded_fds, fd, srinfo)
    IN  IF fd_map_get(devmap, dev).found = 0 THEN same
        ELSE IF fd_map_get(script_recorded_fds, fd).found = 1 THEN [same EXCEPT !.pc = "aborted"]
        ELSE [devmap |-> devmap, fds |-> a.map,
              heap |-> [h EXCEPT ![srinfo] = [free_block EXCEPT !.kind = "srinfo", !.live = TRUE,
                                                                !.time = clock, !.op = 0]],
              file |-> <<>>,
              pc |-> IF a.abort THEN "aborted" ELSE "run",
              opened |-> TRUE]

\* whether the file that the real call is given exists: the shadow file, or
\* one of the real devices /dev/a and /dev/b
real_exists(tr, path) == IF tr.ret = "buf" THEN fs_shadow(path) ELSE path \in OpenPaths

\* open(path, flags, ...) and open64
Open(path, flags) ==
    /\ pc = "run"
    /\ LET tr == trap_path(env.prefix, path, env.disabled, fs_shadow(path))
           \* the mode is an argument only with O_CREAT
           real_args == IF flags = "O_CREAT" THEN <<flags, "mode">> ELSE <<flags>>
           c == [a_call("open", -1, real_args) EXCEPT !.path = [ptr |-> "path", root_len |-> 0, path |-> path]]
       IN  IF tr.ret = "NULL"
           THEN /\ call' = [c EXCEPT !.ret = -1]
                /\ UNCHANGED <<os_fd, sockVars, ioctlVars, recVars, scriptVars, heap, pc, fail_left>>
           ELSE \E ret \in (IF real_exists(tr, path) THEN RealNewFd ELSE {-1}) :
                LET tbl == IF ret # -1 THEN [os_fd EXCEPT ![ret] = open_kind(tr, path)] ELSE os_fd
                    dev == IF ret \in Fds THEN rdev_of(tbl[ret]) ELSE 0
                    w == ioctl_wrap_open(ioctl_wrapped_fds, heap, ret, path)
                    ro == ioctl_record_open(ret, dev)
                    so == script_record_open(heap, ret, dev)
                    redirected == tr.ret = "buf"
                IN  /\ os_fd' = tbl
                    /\ fail_left' = IF ret = -1 /\ real_exists(tr, path) THEN fail_left - 1
                                    ELSE fail_left
                    /\ call' = [with_real(c, real_args, ret, ret) EXCEPT
                                  !.real_path = [ptr |-> tr.ret, root_len |-> tr.root_len, path |-> path]]
                    /\ IF redirected
                       THEN /\ ioctl_wrapped_fds' = w.map
                            /\ heap' = w.heap
                            /\ pc' = w.pc
                            /\ UNCHANGED <<recVars, scriptVars>>
                       ELSE /\ record_rdev' = ro.rdev
                            /\ ioctl_record_fd' = ro.fd
                            /\ ioctl_record_log' = ro.log
                            /\ ioctl_record' = ro.tree
                            /\ UNCHANGED <<record_file, ioctl_wrapped_fds>>
                            /\ IF ro.exit
                               THEN /\ pc' = "exited"
                                    /\ UNCHANGED <<scriptVars, heap>>
                               ELSE /\ script_dev_logfile_map' = so.devmap
                                    /\ script_dev_logfile_map_inited' = TRUE
                                    /\ script_recorded_fds' = so.fds
                                    /\ script_file' = so.file
                                    /\ fd_prev' = IF so.opened
                                                  THEN [fd_prev EXCEPT ![ret] = [rec |-> TRUE, op |-> 0, time |-> clock]]
                                                  ELSE fd_prev
                                    /\ heap' = so.heap
                                    /\ pc' = so.pc
                    /\ UNCHANGED sockVars
    /\ UNCHANGED <<clock, n_io, otherVars>>

\* st_mode file types, as the sets of the type bits (bit 15 is 0100000)
S_IFREG == {15}
S_IFDIR == {14}
S_IFCHR == {13}
S_IFBLK == {14, 13}
S_IFLNK == {15, 13}
S_IFIFO == {12}
S_IFSOCK == {15, 14}

\* what the shadow tree may hold at a path.  link: for a symlink, whether its
\* target starts with "/dev/" ("dev"), differs from "/dev/" within its own
\* length ("other"), or is a proper prefix of "/dev/" ("short"); the mode of
\* a symlink has no sticky bit
ShadowFiles ==
    [fmt : {S_IFREG, S_IFDIR, S_IFCHR, S_IFBLK, S_IFIFO, S_IFSOCK}, sticky : BOOLEAN,
     link : {"none"}]
        \cup [fmt : {S_IFLNK}, sticky : {FALSE}, link : {"dev", "other", "short"}]

\* is_emulated_device(path, st_mode); link_dev: strncmp(dest, "/dev/", 5) == 0
is_emulated_device(fmt, link_dev) ==
    IF fmt = S_IFLNK THEN link_dev ELSE fmt # S_IFDIR

\* what the wrapper makes of the real st: the __xstat family after a real
\* call that returned ret for the path p that trap_path gave (tr)
verstat_fix(tr, path, ret, st, link_dev, node_rdev) ==
    IF /\ ret = 0 /\ tr.ret = "buf" /\ strncmp_eq(path, lit_dev_slash, 5)
       /\ is_emulated_device(st.fmt, link_dev)
    THEN IF st.sticky
         THEN [st EXCEPT !.fmt = (st.fmt \ S_IFREG) \cup S_IFBLK, !.sticky = FALSE, !.rdev = node_rdev]
         ELSE [st EXCEPT !.fmt = (st.fmt \ S_IFREG) \cup S_IFCHR, !.rdev = node_rdev]
    ELSE st

\* what the real __xstat / __lxstat stores for p, shadow being what the
\* shadow tree holds there
real_stat(tr, path, shadow) ==
    IF tr.ret = "buf"
    THEN IF fs_shadow(path)
         THEN [ret |-> 0, st |-> [fmt |-> shadow.fmt, sticky |-> shadow.sticky, rdev |-> 0,
                                   link |-> shadow.link]]
         ELSE [ret |-> -1, st |-> no_st]
    ELSE IF path \in OpenPaths
         THEN [ret |-> 0, st |-> [fmt |-> S_IFCHR, sticky |-> FALSE,
                                   rdev |-> rdev_of(open_kind(tr, path)), link |-> "none"]]
         ELSE IF path = sys_path
         THEN [ret |-> 0, st |-> [fmt |-> S_IFDIR, sticky |-> FALSE, rdev |-> 0, link |-> "none"]]
         ELSE [ret |-> -1, st |-> no_st]

\* __xstat(ver, path, st) and the other members of the family; shadow: what
\* the shadow tree holds, node_rdev: what get_rdev() reads from
\* <root>/dev/.node/.  readlink() fills dest[10] with the link's target and
\* no terminator: for a target that is a proper prefix of "/dev/" strncmp
\* goes on into bytes of dest that were never written, and they may or may
\* not continue the prefix.
Stat(path, shadow, node_rdev) ==
    /\ pc = "run"
    /\ \E unwritten_match \in BOOLEAN :
       LET tr == trap_path(env.prefix, path, env.disabled, fs_shadow(path))
           c == [a_call("stat", -1, <<"ver">>) EXCEPT !.path = [ptr |-> "path", root_len |-> 0, path |-> path]]
           rs == real_stat(tr, path, shadow)
           link_dev == rs.st.link = "dev" \/ (rs.st.link = "short" /\ unwritten_match)
       IN  IF tr.ret = "NULL" THEN call' = [c EXCEPT !.ret = -1]
           ELSE call' = [with_real(c, <<"ver">>, rs.ret, rs.ret) EXCEPT
                            !.real_path = [ptr |-> tr.ret, root_len |-> tr.root_len, path |-> path],
                            !.real_st = rs.st,
                            !.st = verstat_fix(tr, path, rs.ret, rs.st, link_dev, node_rdev)]
    /\ UNCHANGED <<os_fd, clock, sockVars, ioctlVars, recVars, scriptVars, heap, pc, fail_left, n_io, otherVars>>

\* what the real ioctl may return; a descriptor that is being recorded
\* succeeds only while the recording tree has room
RealIoctl(d, request) ==
    IF ~is_open(d) THEN {-1}
    ELSE IF ioctl_record_fd = d /\ request \in KnownRequests /\ Len(ioctl_record) >= MaxTree THEN {-1}
    ELSE {-1, 0}

\* ioctl(d, request, arg)
Ioctl(d, request, arg) ==
    /\ pc = "run"
    /\ LET e == ioctl_emulate(heap, d, request, arg)
           c == a_call("ioctl", d, <<d, request, arg>>)
       IN  /\ heap' = e.heap
           /\ IF e.result # UNHANDLED
              THEN /\ call' = [c EXCEPT !.ret = e.result]
                   /\ UNCHANGED <<ioctl_record, pc>>
              ELSE \E r \in RealIoctl(d, request) :
                   LET rec == record_ioctl(request, arg, r) IN
                   /\ call' = with_real(c, <<d, request, arg>>, r, r)
                   /\ IF r # -1 /\ ioctl_record_fd = d
                      THEN /\ ioctl_record' = rec.tree
                           /\ pc' = IF rec.abort THEN "aborted" ELSE "run"
                      ELSE UNCHANGED <<ioctl_record, pc>>
    /\ UNCHANGED <<os_fd, clock, sockVars, ioctlVars, ioctl_record_fd, ioctl_record_log,
                   record_rdev, record_file, scriptVars, fail_left, n_io, otherVars>>

\* fclose(srinfo->log): the buffered stream is written from the start of the
\* file, which fopen(logname, "w") had emptied
fclose_log(file, log) == log \o SubSeq(file, Len(log) + 1, Len(file))

\* read(fd, buf, count) and write(fd, buf, count): op is OpRead or OpWrite,
\* data the bytes the real call transfers when it succeeds.
\* script_record_op() reads *srinfo: when that block is no live
\* script_record_info any more the process may crash or go on having written
\* nothing.
ReadWrite(op, fd, data) ==
    /\ pc = "run" /\ n_io < MaxIo
    /\ \E res \in (IF is_open(fd) THEN {-1, Len(data)} ELSE {-1}), after_free \in {"crash", "go on"} :
        LET g == fd_map_get(script_recorded_fds, fd)
            recorded == g.found = 1 /\ res > 0
            srinfo == heap[g.data]
            name == IF op = OpRead THEN "read" ELSE "write"
        IN  /\ call' = with_real(a_call(name, fd, <<fd, data>>), <<fd, data>>, res, res)
            /\ IF ~recorded
               THEN /\ after_free = "go on"
                    /\ UNCHANGED <<heap, pc, n_io, fd_prev>>
               ELSE /\ fd_prev' = IF fd \in Fds /\ fd_prev[fd].rec
                                  THEN [fd_prev EXCEPT ![fd] = [rec |-> TRUE, op |-> op, time |-> clock]]
                                  ELSE fd_prev
                    /\ n_io' = n_io + 1
                    /\ IF srinfo.kind # "srinfo"
                       THEN /\ pc' = IF after_free = "crash" THEN "crashed" ELSE "run"
                            /\ UNCHANGED heap
                       ELSE /\ after_free = "go on"
                            /\ heap' = [heap EXCEPT ![g.data].time = clock, ![g.data].op = op,
                                                     ![g.data].log = @ \o script_output(srinfo, op, data, res, clock)]
                            /\ pc' = "run"
    /\ UNCHANGED <<os_fd, clock, sockVars, ioctlVars, recVars, script_dev_logfile_map,
                   script_dev_logfile_map_inited, script_recorded_fds, script_file, fail_left,
                   otherVars>>

Read(fd, data) == ReadWrite(OpRead, fd, data)
Write(fd, data) == ReadWrite(OpWrite, fd, data)

\* close(fd).  script_record_close() closes srinfo->log and frees srinfo: when
\* that block is no live script_record_info any more (freed before, or handed
\* out again as something else), the process may crash or go on.
Close(fd) ==
    /\ pc = "run"
    /\ \E after_free \in {"crash", "go on"} :
        LET ws == fd_map_get(wrapped_sockets, fd)
            iw == fd_map_get(ioctl_wrapped_fds, fd)
            heap1 == IF iw.found = 1 THEN [heap EXCEPT ![iw.data] = free_block] ELSE heap
            active == fd = ioctl_record_fd
            sr == fd_map_get(script_recorded_fds, fd)
            twice == sr.found = 1 /\ heap1[sr.data].kind # "srinfo"
            heap2 == IF sr.found = 1 /\ ~twice THEN [heap1 EXCEPT ![sr.data] = free_block] ELSE heap1
            flushed == IF sr.found = 1 /\ ~twice THEN fclose_log(script_file, heap1[sr.data].log)
                       ELSE script_file
            r == IF is_open(fd) THEN 0 ELSE -1
            crash == twice /\ after_free = "crash"
        IN  /\ twice \/ after_free = "go on"
            /\ wrapped_sockets' = IF ws.found = 1 THEN fd_map_remove(wrapped_sockets, fd).map
                                  ELSE wrapped_sockets
            /\ ioctl_wrapped_fds' = IF iw.found = 1 THEN fd_map_remove(ioctl_wrapped_fds, fd).map
                                    ELSE ioctl_wrapped_fds
            /\ record_file' = IF active THEN ioctl_record_close(record_file, ioctl_record)
                              ELSE record_file
            /\ ioctl_record_fd' = IF active THEN -1 ELSE ioctl_record_fd
            /\ heap' = heap2
            /\ script_file' = flushed
            /\ fd_prev' = IF fd \in Fds THEN [fd_prev EXCEPT ![fd] = not_recorded] ELSE fd_prev
            /\ pc' = IF crash THEN "crashed" ELSE "run"
            /\ os_fd' = IF ~crash /\ is_open(fd) THEN [os_fd EXCEPT ![fd] = "closed"] ELSE os_fd
            /\ call' = IF crash THEN [a_call("close", fd, <<fd>>) EXCEPT !.active = active]
                       ELSE [with_real(a_call("close", fd, <<fd>>), <<fd>>, r, r) EXCEPT !.active = active]
    /\ UNCHANGED <<clock, ioctl_record_log, ioctl_record, record_rdev, script_dev_logfile_map,
                   script_dev_logfile_map_inited, script_recorded_fds, fail_left, n_io, otherVars>>

\* a millisecond passes on CLOCK_MONOTONIC while something is being recorded
Tick ==
    /\ pc = "run"
    /\ \E p \in Ptrs : heap[p].kind = "srinfo" /\ heap[p].live
    /\ clock.sec * 1000 + (clock.nsec \div 1000000) < MaxTicks
    /\ clock' = IF clock.nsec + 1000000 >= 1000000000
                THEN [sec |-> clock.sec + 1, nsec |-> clock.nsec + 1000000 - 1000000000]
                ELSE [clock EXCEPT !.nsec = @ + 1000000]
    /\ UNCHANGED <<env, os_fd, sockVars, ioctlVars, recVars, scriptVars, heap, pc, call,
                   fail_left, n_io, mapVars, trapVars, escVars>>

(***************************************************************************)
(* Spec: a process issuing the interposed calls                            *)
(***************************************************************************)
\* the process before its first call, in environment e
proc_start(e) ==
    /\ env = e
    /\ os_fd = [fd \in Fds |-> "closed"]
    /\ clock = time_zero
    /\ wrapped_sockets = fd_map_empty
    /\ ioctl_wrapped_fds = fd_map_empty
    /\ script_dev_logfile_map = fd_map_empty
    /\ script_dev_logfile_map_inited = FALSE
    /\ script_recorded_fds = fd_map_empty
    /\ heap = [p \in Ptrs |-> free_block]
    /\ ioctl_record_fd = -1
    /\ ioctl_record_log = NULL
    /\ ioctl_record = <<>>
    /\ record_rdev = -1
    /\ script_file = <<>>
    /\ fd_prev = [fd \in Fds |-> not_recorded]
    /\ pc = "run"
    /\ call = no_op
    /\ n_io = 0

map_idle == t = fd_map_empty /\ t_log = <<>> /\ t_abort = FALSE
trap_idle == tp_in = tp_idle /\ tp_out = no_call
esc_idle == esc_in = <<>> /\ esc_out = not_written

IoctlRequests == 1..3
IoctlArgs == {0}

(***************************************************************************)
(* Spec: a process under a testbed root (replay); the real calls that make *)
(* a descriptor do not fail                                                *)
(***************************************************************************)
Init ==
    /\ \E e \in ReplayEnvs : proc_start(e)
    /\ fail_left = 0
    /\ record_file = <<>>
    /\ map_idle
    /\ trap_idle
    /\ esc_idle

Next ==
    \/ Socket("AF_NETLINK", "SOCK_RAW", "NETLINK_KOBJECT_UEVENT")
    \/ \E path \in OpenPaths : Open(path, "O_RDWR")
    \/ \E fd \in FdArgs, request \in IoctlRequests, arg \in IoctlArgs : Ioctl(fd, request, arg)
    \/ \E fd \in FdArgs : Close(fd)

Spec == Init /\ [][Next]_vars

(***************************************************************************)
(* SpecRec: a process without a testbed root that records ioctls or a      *)
(* script; the real open() does not fail                                   *)
(***************************************************************************)
\* the record file may be left by an earlier session
InitRec ==
    /\ \E e \in RecEnvs :
          /\ proc_start(e)
          /\ record_file \in (IF e.rec_file_set THEN {<<>>, OldRecordFile} ELSE {<<>>})
    /\ fail_left = 0
    /\ map_idle
    /\ trap_idle
    /\ esc_idle

NextRec ==
    \/ \E path \in OpenPaths : Open(path, "O_RDWR")
    \/ \E fd \in FdArgs, request \in IoctlRequests, arg \in IoctlArgs : Ioctl(fd, request, arg)
    \/ \E fd \in FdArgs : Read(fd, <<Newline>>)
    \/ \E fd \in FdArgs : Write(fd, <<Newline>>)
    \/ \E fd \in FdArgs : Close(fd)
    \/ Tick

SpecRec == InitRec /\ [][NextRec]_vars

(***************************************************************************)
(* SpecFail: a process under a testbed root whose real socket() and open() *)
(* fail up to MaxFail times                                                *)
(***************************************************************************)
InitFail ==
    /\ \E e \in ReplayEnvs : e.sidecar = "valid" /\ ~e.rec_dev_set /\ proc_start(e)
    /\ fail_left = MaxFail
    /\ record_file = <<>>
    /\ map_idle
    /\ trap_idle
    /\ esc_idle

NextFail ==
    \/ Socket("AF_NETLINK", "SOCK_RAW", "NETLINK_KOBJECT_UEVENT")
    \/ Open(path_a, "O_RDWR")
    \/ \E fd \in FdArgs : Close(fd)

SpecFail == InitFail /\ [][NextFail]_vars

(***************************************************************************)
(* SpecPlain: every entry point, with nothing configured in the            *)
(* environment; the real calls that make a descriptor do not fail          *)
(***************************************************************************)
InitPlain ==
    /\ proc_start(plain_env)
    /\ fail_left = 0
    /\ record_file = <<>>
    /\ map_idle
    /\ trap_idle
    /\ esc_idle

NextPlain ==
    \/ \E domain \in {"AF_NETLINK", "AF_INET"}, protocol \in {"NETLINK_KOBJECT_UEVENT", "0"} :
          Socket(domain, "SOCK_RAW", protocol)
    \/ \E fd \in FdArgs : Bind(fd, "sockaddr_nl")
    \/ \E fd \in FdArgs, has_name \in BOOLEAN, has_cmsg \in BOOLEAN : Recvmsg(fd, has_name, has_cmsg)
    \/ \E path \in OpenPaths, flags \in {"O_RDWR", "O_CREAT"} : Open(path, flags)
    \/ \E path \in StatPaths, shadow \in ShadowFiles, node_rdev \in {0, rdev_of("dev_a")} :
          Stat(path, shadow, node_rdev)
    \/ \E fd \in FdArgs, request \in IoctlRequests, arg \in IoctlArgs : Ioctl(fd, request, arg)
    \/ \E fd \in FdArgs : Read(fd, <<Newline>>)
    \/ \E fd \in FdArgs : Write(fd, <<Newline>>)
    \/ \E fd \in FdArgs : Close(fd)

SpecPlain == InitPlain /\ [][NextPlain]_vars

(***************************************************************************)
(* SpecMap: add / remove / get applied to one registry                     *)
(***************************************************************************)
MaxMapOps == 3
MapFdCount == 2
MapDataCount == 2

MapFds == FirstFd..(FirstFd + MapFdCount - 1)
MapData == 1..MapDataCount

\* a registry that already holds k other descriptors (k sockets opened earlier)
OtherFdBase == 100
prefilled(k) ==
    [set |-> [i \in Slots |-> IF i <= k THEN 1 ELSE 0],
     fd |-> [i \in Slots |-> IF i <= k THEN OtherFdBase + i ELSE 0],
     data |-> [i \in Slots |-> NULL]]

InitMap ==
    /\ t \in {prefilled(0), prefilled(FD_MAP_MAX - 1), prefilled(FD_MAP_MAX)}
    /\ t_log = <<>>
    /\ t_abort = FALSE
    /\ trap_idle
    /\ esc_idle
    /\ proc_start(plain_env)
    /\ fail_left = 0
    /\ record_file = <<>>

MapAdd(fd, data) ==
    /\ ~t_abort /\ Len(t_log) < MaxMapOps
    /\ LET r == fd_map_add(t, fd, data) IN
       /\ t' = r.map
       /\ t_abort' = r.abort
       /\ t_log' = Append(t_log, [op |-> "add", fd |-> fd, data |-> data,
                                  before |-> t, had |-> fd_map_get(t, fd).found])
    /\ UNCHANGED <<trapVars, escVars, procVars>>

MapRemove(fd) ==
    /\ ~t_abort /\ Len(t_log) < MaxMapOps
    /\ LET r == fd_map_remove(t, fd) IN
       /\ t' = r.map
       /\ t_abort' = r.abort
       /\ t_log' = Append(t_log, [op |-> "remove", fd |-> fd, data |-> NULL,
                                  before |-> t, had |-> fd_map_get(t, fd).found])
    /\ UNCHANGED <<trapVars, escVars, procVars>>

MapGet(fd) ==
    /\ ~t_abort /\ Len(t_log) < MaxMapOps
    /\ t_log' = Append(t_log, [op |-> "get", fd |-> fd, data |-> fd_map_get(t, fd).data,
                               before |-> t, had |-> fd_map_get(t, fd).found])
    /\ UNCHANGED <<t, t_abort>>
    /\ UNCHANGED <<trapVars, escVars, procVars>>

NextMap ==
    \/ \E fd \in MapFds, data \in MapData : MapAdd(fd, data)
    \/ \E fd \in MapFds : MapRemove(fd)
    \/ \E fd \in MapFds : MapGet(fd)

SpecMap == InitMap /\ [][NextMap]_vars

(***************************************************************************)
(* SpecTrap: trap_path applied to one input                                *)
(***************************************************************************)
ShortExtra == 3
Margin == 2

TrapHeads ==
    { <<"/", "d", "e", "v", "/", "x">>, lit_dev, <<"/", "d", "e", "v", "x">>,
      <<"/", "s", "y", "s", "/", "x">>, lit_sys, <<"/", "s", "y", "s", "x">>,
      <<"/", "e", "t", "c", "/", "x">> }

TrapExtras == {0, ShortExtra, buf_size - Len(lit_disabled) - Margin, buf_size}

TrapPaths == {null_path} \cup [null : {FALSE}, str : TrapHeads, extra : TrapExtras]

TrapRootLens ==
    {0, ShortRootLen} \cup ((buf_size - Len(lit_disabled) - Margin)..(buf_size - Len(lit_disabled) + Margin))
        \cup {buf_size}

TrapPrefixes == {null_prefix} \cup [null : {FALSE}, len : TrapRootLens]

\* what a build may do once the buffer has been overrun
UBOutcomes(path, prefix_len) ==
    { ret_path(path), ret_buf(prefix_len, path, TRUE), ret_null(path),
      [ret |-> "crash", path |-> path, root_len |-> 0, errno |-> "unchanged", ub |-> TRUE] }

InitTrap ==
    /\ tp_in \in [prefix : TrapPrefixes, path : TrapPaths, disabled : BOOLEAN, shadow : BOOLEAN]
    /\ tp_out = no_call
    /\ map_idle
    /\ esc_idle
    /\ proc_start(plain_env)
    /\ fail_left = 0
    /\ record_file = <<>>

TrapCall ==
    /\ tp_out = no_call
    /\ LET r == trap_path(tp_in.prefix, tp_in.path, tp_in.disabled, tp_in.shadow) IN
       IF r.ub THEN tp_out' \in {[o EXCEPT !.ub = TRUE] : o \in UBOutcomes(tp_in.path, tp_in.prefix.len)}
       ELSE tp_out' = r
    /\ UNCHANGED <<tp_in, mapVars, escVars, procVars>>

NextTrap == TrapCall

SpecTrap == InitTrap /\ [][NextTrap]_vars


(***************************************************************************)
(* SpecStat: a process under a testbed root that calls the __xstat family  *)
(***************************************************************************)
InitStat ==
    /\ \E e \in ReplayEnvs : proc_start(e)
    /\ fail_left = 0
    /\ record_file = <<>>
    /\ map_idle
    /\ trap_idle
    /\ esc_idle

NextStat ==
    \E path \in StatPaths, shadow \in ShadowFiles, node_rdev \in {0, rdev_of("dev_a")} :
        Stat(path, shadow, node_rdev)

SpecStat == InitStat /\ [][NextStat]_vars

(***************************************************************************)
(* SpecSock: a process under a testbed root that uses sockets              *)
(***************************************************************************)
InitSock ==
    /\ \E e \in ReplayEnvs : proc_start(e)
    /\ fail_left = 0
    /\ record_file = <<>>
    /\ map_idle
    /\ trap_idle
    /\ esc_idle

NextSock ==
    \/ \E domain \in {"AF_NETLINK", "AF_INET"}, protocol \in {"NETLINK_KOBJECT_UEVENT", "0"} :
          Socket(domain, "SOCK_RAW", protocol)
    \/ \E sockfd \in FdArgs : Bind(sockfd, "sockaddr_nl")
    \/ \E sockfd \in FdArgs, has_name \in BOOLEAN, has_cmsg \in BOOLEAN :
          Recvmsg(sockfd, has_name, has_cmsg)
    \/ \E fd \in FdArgs : Close(fd)

SpecSock == InitSock /\ [][NextSock]_vars

(***************************************************************************)
(* SpecOpen: a process in any configuration of the testbed root, its        *)
(* sidecar file and the ioctl recording variables, that opens and closes    *)
(***************************************************************************)
OpenEnvs ==
    { e \in AllEnvs : ~e.script_set /\ (e.prefix.null => e.sidecar = "none") }

InitOpen ==
    /\ \E e \in OpenEnvs : proc_start(e)
    /\ fail_left = 0
    /\ record_file = <<>>
    /\ map_idle
    /\ trap_idle
    /\ esc_idle

NextOpen ==
    \/ \E path \in OpenPaths : Open(path, "O_RDWR")
    \/ \E fd \in FdArgs : Close(fd)

SpecOpen == InitOpen /\ [][NextOpen]_vars

(***************************************************************************)
(* SpecEsc: the escaping loop of script_record_op applied to one buffer    *)
(***************************************************************************)
MaxBuf == 3

\* bytes around every comparison of the loop (32 and '^'), the bytes of the
\* documented example (0x41, 0x0A, 0x5E), and bytes with the top bit set
EscBytes == {0, 10, 30, 31, 32, 65, 74, 94, 127, 128, 255}

RECURSIVE BuffersOfLen(_)
BuffersOfLen(n) ==
    IF n = 0 THEN {<<>>}
    ELSE {<<b>> \o rest : b \in EscBytes, rest \in BuffersOfLen(n - 1)}

EscBuffers == UNION {BuffersOfLen(n) : n \in 0..MaxBuf}

InitEsc ==
    /\ esc_in \in EscBuffers
    /\ esc_out = not_written
    /\ map_idle
    /\ trap_idle
    /\ proc_start(plain_env)
    /\ fail_left = 0
    /\ record_file = <<>>

EscapeCall ==
    /\ ~esc_out.done
    /\ esc_out' = [done |-> TRUE, body |-> escape(SubSeq(esc_in, 1, Len(esc_in)))]
    /\ UNCHANGED <<esc_in, mapVars, trapVars, procVars>>

NextEsc == EscapeCall

SpecEsc == InitEsc /\ [][NextEsc]_vars

(***************************************************************************)
(* SpecLong: a process under a testbed root that opens and stats paths     *)
(* whose length is near the size of trap_path's buffer                      *)
(***************************************************************************)
LongHeads ==
    { <<"/", "d", "e", "v", "/", "x">>, <<"/", "s", "y", "s", "/", "x">>,
      <<"/", "e", "t", "c", "/", "x">> }

\* with a root of ShortRootLen characters: the longest path that fits the
\* buffer, the shortest that does not, and one as long as the buffer
LongExtras(head) ==
    {buf_size - ShortRootLen - Len(head) - 1, buf_size - ShortRootLen - Len(head), buf_size}

LongPaths ==
    UNION { { [null |-> FALSE, str |-> head, extra |-> x] : x \in LongExtras(head) } : head \in LongHeads }

InitLong ==
    /\ \E e \in ReplayEnvs : proc_start(e)
    /\ fail_left = 0
    /\ record_file = <<>>
    /\ map_idle
    /\ trap_idle
    /\ esc_idle

NextLong ==
    \/ \E path \in OpenPaths \cup LongPaths : Open(path, "O_RDWR")
    \/ \E path \in StatPaths \cup LongPaths, shadow \in {s \in ShadowFiles : s.fmt = S_IFREG},
          node_rdev \in {0} :
          Stat(path, shadow, node_rdev)

SpecLong == InitLong /\ [][NextLong]_vars
\* the last call made on the registry, and the one before it
t_last == t_log[Len(t_log)]
t_prev == t_log[Len(t_log) - 1]

\* C4 (as stated): for any registry with a free slot, after add(t, fd, p) the
\* lookup get(t, fd) reports present with payload p, and after a following
\* remove(t, fd) it reports absent.
C4_RoundTripAnyRegistry ==
    /\ (Len(t_log) >= 1 /\ t_last.op = "add" /\ first_free(t_last.before) # 0)
          => fd_map_get(t, t_last.fd) = [found |-> 1, data |-> t_last.data]
    /\ (/\ Len(t_log) >= 2 /\ t_prev.op = "add" /\ first_free(t_prev.before) # 0
        /\ t_last.op = "remove" /\ t_last.fd = t_prev.fd)
          => fd_map_get(t, t_last.fd).found = 0

\* C4 (amended): for any registry with a free slot in which fd has no present
\* entry, after add(t, fd, p) the lookup get(t, fd) reports present with
\* payload p, and after a following remove(t, fd) it reports absent.
C4_RoundTripFreshFd ==
    /\ (/\ Len(t_log) >= 1 /\ t_last.op = "add" /\ first_free(t_last.before) # 0
        /\ t_last.had = 0)
          => fd_map_get(t, t_last.fd) = [found |-> 1, data |-> t_last.data]
    /\ (/\ Len(t_log) >= 2 /\ t_prev.op = "add" /\ first_free(t_prev.before) # 0
        /\ t_prev.had = 0
        /\ t_last.op = "remove" /\ t_last.fd = t_prev.fd)
          => (~t_abort /\ fd_map_get(t, t_last.fd).found = 0)

\* an add of an absent fd into a registry that holds other entries, then its
\* remove: the entry of that add is gone again
C4_Witness ==
    /\ Len(t_log) >= 2
    /\ t_prev.op = "add" /\ t_prev.had = 0 /\ num_set(t_prev.before) = FD_MAP_MAX - 1
    /\ t_last.op = "remove" /\ t_last.fd = t_prev.fd
    /\ fd_map_get(t_last.before, t_prev.fd) = [found |-> 1, data |-> t_prev.data]
    /\ fd_map_get(t, t_prev.fd).found = 0

\* C5: overflow and double-remove are fatal: an add while FD_MAP_MAX (50)
\* entries are present aborts and changes no entry; a remove of a descriptor
\* with no present entry (a second remove included) aborts.
C5_OverflowAndDoubleRemoveAbort ==
    Len(t_log) >= 1 =>
        /\ (t_last.op = "add" /\ num_set(t_last.before) = FD_MAP_MAX)
              => (t_abort /\ t = t_last.before)
        /\ (t_last.op = "remove" /\ t_last.had = 0)
              => (t_abort /\ t = t_last.before)

\* the 51st add: all 50 slots present, the add aborted
C5_Witness ==
    /\ Len(t_log) >= 1 /\ t_last.op = "add"
    /\ num_set(t_last.before) = FD_MAP_MAX /\ FD_MAP_MAX = 50
    /\ t_abort

\* the second remove of a descriptor that was added once: aborted
C5_WitnessDoubleRemove ==
    /\ Len(t_log) = 3
    /\ t_log[1].op = "add" /\ t_log[1].had = 0
    /\ t_log[2].op = "remove" /\ t_log[2].fd = t_log[1].fd
    /\ t_log[3].op = "remove" /\ t_log[3].fd = t_log[1].fd
    /\ t_abort

\* the call has returned
tp_done == tp_out.ret # "none"

\* the path lies below /dev/ (resp. /sys/): "/dev/x", "/sys/x"
under_dev == ~tp_in.path.null /\ strncmp_eq(tp_in.path, lit_dev_slash, 5) /\ strlen(tp_in.path) > 5
under_sys == ~tp_in.path.null /\ strncmp_eq(tp_in.path, lit_sys_slash, 5) /\ strlen(tp_in.path) > 5

\* the path is /dev, /sys or below one of them
trapped_tree ==
    \/ strncmp_eq(tp_in.path, lit_dev_slash, 5) \/ strcmp_eq(tp_in.path, lit_dev)
    \/ strncmp_eq(tp_in.path, lit_sys_slash, 5) \/ strcmp_eq(tp_in.path, lit_sys)

\* the result is the string <root><path> / is the caller's path itself
returns_shadow ==
    tp_out.ret = "buf" /\ tp_out.root_len = tp_in.prefix.len /\ tp_out.path = tp_in.path
returns_unchanged == tp_out.ret = "path" /\ tp_out.path = tp_in.path

shadow_wanted == ~tp_in.prefix.null /\ ~tp_in.disabled /\ tp_in.shadow

\* C7: for all paths under /dev/x the trapper returns <root>/dev/x iff a root
\* is configured, no disabled marker exists and the shadow file exists; in
\* every other case it returns /dev/x unchanged.
C7_DevShadowIff ==
    (tp_done /\ under_dev) =>
        /\ returns_shadow <=> shadow_wanted
        /\ ~shadow_wanted => returns_unchanged

\* C8: for all paths under /sys/x, when a root is configured and no disabled
\* marker exists, the trapper returns <root>/sys/x whether or not the shadow
\* path exists.
C8_SysAlwaysShadow ==
    (tp_done /\ under_sys /\ ~tp_in.prefix.null /\ ~tp_in.disabled) => returns_shadow

\* C9: for every path that is neither /dev or /sys nor starts with /dev/ or
\* /sys/, the trapper returns the input path unchanged, whatever the root,
\* the marker, the shadow file and the lengths are.
C9_OtherPathsIdentity ==
    (tp_done /\ ~tp_in.path.null /\ ~trapped_tree) => (returns_unchanged /\ tp_out.errno = "unchanged")

\* "/devx...": not below /dev/, root configured, root + path longer than the
\* buffer, handed back unchanged
C9_Witness ==
    /\ tp_done /\ ~tp_in.path.null /\ ~trapped_tree
    /\ strncmp_eq(tp_in.path, lit_dev, 4)
    /\ ~tp_in.prefix.null /\ strlen(tp_in.path) + tp_in.prefix.len >= buf_size
    /\ returns_unchanged
\* the three descriptor registries
registries == <<wrapped_sockets, ioctl_wrapped_fds, script_recorded_fds>>

\* the last call returned to its caller
returned == call.op # "none" /\ pc = "run"

\* C1: for a registered descriptor whose loaded tree contains a recorded
\* (R, A, Z) matching at the descriptor's cursor, ioctl(fd, R, A) returns Z
\* without invoking the real ioctl, for every recorded result Z; an ioctl
\* whose (request, argument) is unmatched invokes the real ioctl and returns
\* its result.
C1_IoctlReplay ==
    [][ \A d \in FdArgs, R \in IoctlRequests, A \in IoctlArgs :
          (pc = "run" /\ clock' = clock /\ call'.op = "ioctl" /\ call'.args = <<d, R, A>>) =>
              LET g == fd_map_get(ioctl_wrapped_fds, d)
                  tree == IF g.found = 1 THEN heap[g.data].tree ELSE <<>>
                  last == IF g.found = 1 THEN heap[g.data].last ELSE 0
                  matched == { i \in 1..Len(tree) : tree[i].req = R /\ tree[i].arg = A }
                  x == ioctl_tree_execute(tree, last, R, A, 0)
              IN  IF matched # {}
                  THEN ~call'.real /\ x.node \in matched /\ call'.ret = tree[x.node].res
                  ELSE call'.real /\ call'.real_args = <<d, R, A>> /\ call'.ret = call'.real_ret
      ]_vars

\* C2: after close(fd) returns, fd has no entry in any descriptor registry
\* (wrapped sockets, ioctl-wrapped descriptors, script-recorded descriptors).
C2_ClosedFdInNoRegistry ==
    (returned /\ call.op = "close" /\ call.fd \in Fds) =>
        \A k \in 1..Len(registries) : fd_map_get(registries[k], call.fd).found = 0

\* C3: in every reachable state each descriptor registry holds at most one
\* present entry per descriptor number.
C3_OneEntryPerFd ==
    \A k \in 1..Len(registries) : \A i, j \in Slots :
        (/\ registries[k].set[i] # 0 /\ registries[k].set[j] # 0
         /\ registries[k].fd[i] = registries[k].fd[j]) => i = j

\* C6: immediately after every close of the active recording descriptor the
\* record file on disk equals the in-memory recording tree (rewritten from
\* the whole tree, never appended to) and no descriptor is active for
\* recording.
C6_CloseFlushesRecording ==
    (call.op = "close" /\ call.active /\ call.fd \in Fds) =>
        /\ ioctl_tree_read(record_file) = ioctl_record
        /\ ioctl_record_fd = -1

\* the recording descriptor closed after an ioctl was recorded on top of the
\* tree of an earlier session: the file holds the old node and the new one
C6_Witness ==
    /\ call.op = "close" /\ call.active /\ call.fd \in Fds
    /\ Len(ioctl_record) = Len(OldRecordFile) + 1
    /\ SubSeq(record_file, 1, Len(OldRecordFile)) = OldRecordFile
    /\ Len(record_file) = Len(ioctl_record)
    /\ ioctl_record_fd = -1

\* C10: when no testbed root and no recording target are configured, every
\* interposed entry point calls the real function with exactly the caller's
\* arguments and returns its result unchanged; socket requests are passed
\* through with their requested domain and protocol.
C10_Transparent ==
    (returned /\ env.prefix.null /\ ~env.rec_dev_set /\ ~env.script_set) =>
        /\ call.real
        /\ call.real_args = call.args
        /\ call.real_path = call.path
        /\ call.ret = call.real_ret
        /\ call.msg = call.real_msg
        /\ call.st = call.real_st

(***************************************************************************)
(* Claims about the script recorder                                        *)
(***************************************************************************)

\* milliseconds of a timespec
msec_of(tm) == tm.sec * 1000 + (tm.nsec \div 1000000)

\* the stream of the script_record_info registered for fd in heap h
stream_of(h, fd) == h[fd_map_get(script_recorded_fds, fd).data].log

\* what one operation of the given kind adds to the stream of a descriptor
\* whose previously recorded operation was prev
record_text(prev, op, data, now) ==
    LET elapsed == msec_of(now) - msec_of(prev.time)
        header == <<op, Space>> \o decimal(elapsed) \o <<Space>>
    IN  IF elapsed # 0 \/ op # prev.op
        THEN (IF prev.op = 0 THEN <<>> ELSE <<Newline>>) \o header \o escape(data)
        ELSE escape(data)

\* a read or write of kind op on fd returns a positive byte count in this step
io_step(op, fd) ==
    /\ pc = "run" /\ clock' = clock /\ n_io' = n_io + 1
    /\ call'.op = (IF op = OpRead THEN "read" ELSE "write")
    /\ call'.fd = fd /\ call'.ret > 0

\* C11: for a recorded descriptor, an operation with a positive byte count
\* starts a new record (newline before it unless it is the first record, then
\* the header "<kind> <elapsed-ms> ") exactly when the elapsed milliseconds
\* since the previous recorded operation are non-zero or its kind differs from
\* the previous kind; two operations of the same kind with zero measured delay
\* are written into one record with no newline between them.
C11_ScriptCoalescing ==
    [][ \A fd \in Fds, op \in {OpRead, OpWrite} :
          (io_step(op, fd) /\ fd_prev[fd].rec) =>
              stream_of(heap', fd) =
                  stream_of(heap, fd) \o record_text(fd_prev[fd], op, call'.args[2], clock)
      ]_vars

\* the same, for a descriptor whose script_record_info is live and is
\* registered under no other descriptor number
ScriptCoalescingUnshared ==
    [][ \A fd \in Fds, op \in {OpRead, OpWrite} :
          (/\ io_step(op, fd) /\ fd_prev[fd].rec
           /\ heap[fd_map_get(script_recorded_fds, fd).data].kind = "srinfo"
           /\ \A other \in Fds \ {fd} :
                  fd_map_get(script_recorded_fds, other).found = 1 =>
                      fd_map_get(script_recorded_fds, other).data #
                          fd_map_get(script_recorded_fds, fd).data) =>
              stream_of(heap', fd) =
                  stream_of(heap, fd) \o record_text(fd_prev[fd], op, call'.args[2], clock)
      ]_vars

\* what the loop emits for one byte
emitted(byte) ==
    IF byte < 32 THEN <<Caret, byte + 64>>
    ELSE IF byte = Caret THEN <<Caret, Caret>>
    ELSE <<byte>>

\* where the image of byte i of buf starts in the body, counted from 0
RECURSIVE body_offset(_, _)
body_offset(buf, i) ==
    IF i = 1 THEN 0 ELSE body_offset(buf, i - 1) + Len(emitted(buf[i - 1]))

\* C12: every recorded byte below 32 is emitted as '^' followed by the
\* character (byte + 64), a literal caret is emitted as two carets, and every
\* other byte is emitted verbatim; the bytes 0x41, 0x0A, 0x5E produce the body
\* A^J^^.
C12_ScriptEscaping ==
    esc_out.done =>
        /\ Len(esc_out.body) = body_offset(esc_in, Len(esc_in) + 1)
        /\ \A i \in 1..Len(esc_in) :
               SubSeq(esc_out.body, body_offset(esc_in, i) + 1,
                      body_offset(esc_in, i) + Len(emitted(esc_in[i]))) = emitted(esc_in[i])
        /\ (esc_in = <<65, 10, 94>> => esc_out.body = <<65, 94, 74, 94, 94>>)

C12_Witness ==
    esc_out.done /\ esc_in = <<65, 10, 94>> /\ esc_out.body = <<65, 94, 74, 94, 94>>

C12_WitnessHighByte ==
    esc_out.done /\ esc_in = <<255>> /\ esc_out.body = <<255>>

\* C20: any two different byte sequences recorded within one record produce
\* different escaped bodies, so that a record body decodes back to exactly
\* the bytes that were read or written.
C20_EscapingInjective ==
    esc_out.done =>
        \A other \in EscBuffers : other # esc_in => escape(other) # esc_out.body

(***************************************************************************)
(* Claims about the stat family and the sockets                            *)
(***************************************************************************)

\* a versioned stat of a redirected path under /dev/ returned success
stat_redirected ==
    /\ returned /\ call.op = "stat" /\ call.real /\ call.ret = 0
    /\ call.real_path.ptr = "buf"
    /\ strncmp_eq(call.path.path, lit_dev_slash, 5)

\* the shadow file counts as an emulated device: any file that is no
\* directory, or a symlink whose target begins with /dev/
counts_as_emulated(st) ==
    IF st.fmt = S_IFLNK THEN st.link = "dev" ELSE st.fmt # S_IFDIR

\* C13: after a successful versioned stat on a redirected path under /dev/
\* whose shadow file counts as an emulated device (any non-directory file, or
\* a symlink whose target begins with /dev/), the reported mode has the file
\* type of a block device with the sticky bit cleared if the shadow file's
\* sticky bit was set, and the file type of a char device otherwise; shadow
\* directories and other symlinks are reported unmodified.
C13_DeviceClassification ==
    stat_redirected =>
        IF counts_as_emulated(call.real_st)
        THEN IF call.real_st.sticky
             THEN call.st.fmt = S_IFBLK /\ ~call.st.sticky
             ELSE call.st.fmt = S_IFCHR
        ELSE call.st = call.real_st

\* the same for shadow files that are regular files, char devices,
\* directories, and symlinks that are at least as long as "/dev/" where they
\* agree with it
DeviceClassificationPlainFiles ==
    (stat_redirected /\ call.real_st.fmt \in {S_IFREG, S_IFCHR, S_IFDIR, S_IFLNK}
        /\ call.real_st.link # "short") =>
        IF counts_as_emulated(call.real_st)
        THEN IF call.real_st.sticky
             THEN call.st.fmt = S_IFBLK /\ ~call.st.sticky
             ELSE call.st.fmt = S_IFCHR
        ELSE call.st = call.real_st

\* the last call was a recvmsg on a descriptor that socket() wrapped
recv_wrapped == call.op = "recvmsg" /\ fd_map_get(wrapped_sockets, call.fd).found = 1

\* the sender as the wrapper forges it
forged(msg) ==
    /\ msg.family = "AF_NETLINK" /\ msg.pid = 0 /\ msg.groups = 2
    /\ (msg.cred = "set" => msg.uid = 0)

\* C14: on a descriptor created by a netlink/uevent socket request, every
\* successful receive reports the sender as netlink family, pid 0, multicast
\* group 2 and, when an ancillary credentials block is present, UID 0,
\* regardless of the real sender; a receive on a descriptor that is not
\* wrapped, or a failed receive, leaves the message header as the real
\* recvmsg produced it, and the return value is always that of the real
\* recvmsg.
C14_NetlinkForging ==
    call.op = "recvmsg" =>
        /\ pc = "run"
        /\ call.ret = call.real_ret
        /\ IF recv_wrapped /\ call.real_ret >= 0
           THEN forged(call.msg)
           ELSE call.msg = call.real_msg

\* the same for receives that give a buffer for the sender's address and
\* receive at least one byte
NetlinkForgingNamed ==
    (call.op = "recvmsg" /\ (call.real_ret >= 0 => call.real_msg.name = "set") /\ call.real_ret # 0) =>
        /\ pc = "run"
        /\ call.ret = call.real_ret
        /\ IF recv_wrapped /\ call.real_ret > 0
           THEN forged(call.msg)
           ELSE call.msg = call.real_msg

(***************************************************************************)
(* Claims about ioctl recording and replay                                 *)
(***************************************************************************)

\* this step is the call ioctl(d, request, arg)
ioctl_step(d, request, arg) ==
    pc = "run" /\ clock' = clock /\ call'.op = "ioctl" /\ call'.args = <<d, request, arg>>

\* the real ioctl was invoked, did not fail, and d is the active recording
\* descriptor
recordable(d) == call'.real /\ call'.real_ret # -1 /\ ioctl_record_fd = d

\* the recording tree is left with one more node, (request, arg, result), and
\* that node is the root when the tree was empty
node_inserted(request, arg) ==
    LET node == [req |-> request, arg |-> arg, res |-> call'.real_ret] IN
    /\ ioctl_record' = ioctl_record \o <<node>>
    /\ (ioctl_record = <<>> => ioctl_record' = <<node>>)

\* C15 as stated: recording inserts a node into the global recording tree
\* exactly when an ioctl fell through to the real ioctl, the real ioctl
\* returned a non-failure result, and the descriptor is the currently active
\* recording descriptor; a failed real ioctl, an ioctl on any other
\* descriptor, or an ioctl issued while no descriptor is active leaves the
\* recording tree unchanged, and the first insertion into an empty tree
\* becomes its root.
C15_RecordExactlyWhen ==
    [][ \A d \in FdArgs, request \in IoctlRequests, arg \in IoctlArgs :
          ioctl_step(d, request, arg) =>
              IF recordable(d) THEN node_inserted(request, arg)
              ELSE ioctl_record' = ioctl_record
      ]_vars

\* C15 amended: the node is inserted exactly when, besides, a node could be
\* built from (request, argument, result); otherwise the tree is unchanged.
C15_RecordWhenNodeBuilt ==
    [][ \A d \in FdArgs, request \in IoctlRequests, arg \in IoctlArgs :
          ioctl_step(d, request, arg) =>
              IF recordable(d) /\ ioctl_tree_new_from_bin(request, arg, call'.real_ret) # <<>>
              THEN node_inserted(request, arg)
              ELSE ioctl_record' = ioctl_record
      ]_vars

\* a successful real ioctl on the active descriptor made the root of the tree
C15_Witness ==
    /\ call.op = "ioctl" /\ call.real /\ call.real_ret # -1 /\ call.fd = ioctl_record_fd
    /\ ioctl_record = <<[req |-> call.args[2], arg |-> call.args[3], res |-> call.real_ret]>>

\* a failed real ioctl on the active descriptor, the tree holding a node
C15_WitnessFailed ==
    /\ call.op = "ioctl" /\ call.real /\ call.real_ret = -1 /\ call.fd = ioctl_record_fd
    /\ call.args[2] \in KnownRequests /\ Len(ioctl_record) = 1

\* d is open on the recording target
on_target(tbl, d) == d \in Fds /\ tbl[d] # "closed" /\ rdev_of(tbl[d]) = record_rdev

\* d is open on the recording target, the record file is open, and d is not
\* the active recording descriptor: one that a later open took over from
superseded(d) == on_target(os_fd, d) /\ ioctl_record_log # NULL /\ d # ioctl_record_fd

\* this step is an open that returns second, a descriptor of the recording
\* target, while first is the active recording descriptor
second_open(first, second) ==
    /\ pc = "run" /\ clock' = clock /\ call'.op = "open" /\ call'.ret = second
    /\ ioctl_record_fd = first /\ on_target(os_fd, first) /\ on_target(os_fd', second)

\* this step is close(d)
close_step(d) == pc = "run" /\ clock' = clock /\ call'.op = "close" /\ call'.args = <<d>>

\* C16: if a second descriptor whose device number equals the recording
\* target is opened while a first descriptor is the active recording
\* descriptor, the second silently becomes the active descriptor without the
\* first session being flushed; from then on successful ioctls on the first
\* descriptor are not recorded, closing the first descriptor neither writes
\* the record file nor clears the active state, and at most one descriptor is
\* active for recording in every reachable state.
C16_RecordingReassignment ==
    /\ [][ /\ \A first, second \in Fds :
                second_open(first, second) =>
                    /\ ioctl_record_fd' = second /\ pc' = "run"
                    /\ record_file' = record_file /\ ioctl_record' = ioctl_record
           /\ \A d \in Fds, request \in IoctlRequests, arg \in IoctlArgs :
                (ioctl_step(d, request, arg) /\ superseded(d)) =>
                    ioctl_record' = ioctl_record
           /\ \A d \in Fds :
                (close_step(d) /\ superseded(d)) =>
                    record_file' = record_file /\ ioctl_record_fd' = ioctl_record_fd
         ]_vars
    /\ [](Cardinality({d \in FdArgs : d # -1 /\ d = ioctl_record_fd}) <= 1)

\* the first descriptor was taken over from and then closed, the second one
\* still being active with a node recorded that is not in the record file
C16_Witness ==
    /\ call.op = "close" /\ call.ret = 0 /\ call.fd \in Fds /\ ~call.active
    /\ ioctl_record_fd \in Fds \ {call.fd} /\ on_target(os_fd, ioctl_record_fd)
    /\ ioctl_record # <<>> /\ record_file = <<>>

\* a successful real ioctl on the first descriptor after it was taken over from
C16_WitnessIoctl ==
    /\ call.op = "ioctl" /\ call.real /\ call.real_ret # -1
    /\ call.args[2] \in KnownRequests /\ superseded(call.fd)
    /\ ioctl_record_fd \in Fds

\* the struct ioctl_fd_info of d, when d is registered before and after this
\* step with the same block
fdinfo_kept(d) ==
    /\ fd_map_get(ioctl_wrapped_fds, d).found = 1
    /\ fd_map_get(ioctl_wrapped_fds', d).found = 1
    /\ fd_map_get(ioctl_wrapped_fds', d).data = fd_map_get(ioctl_wrapped_fds, d).data

\* the node that ioctl_tree_execute matches for ioctl(d, request, arg), 0: none
matched_node(d, request, arg) ==
    LET fdinfo == heap[fd_map_get(ioctl_wrapped_fds, d).data]
    IN  ioctl_tree_execute(fdinfo.tree, fdinfo.last, request, arg, UNHANDLED).node

\* C17: a descriptor's replay cursor changes only by an ioctl on that same
\* descriptor that was answered from the tree (real ioctl not invoked), and
\* then becomes the matched node; an ioctl that falls through to the real
\* ioctl, and any ioctl, open or close on a different descriptor, leaves that
\* descriptor's cursor and tree unchanged.
C17_CursorFrame ==
    [][ \A d \in Fds :
          fdinfo_kept(d) =>
              LET p == fd_map_get(ioctl_wrapped_fds, d).data IN
              /\ heap'[p].tree = heap[p].tree
              /\ heap'[p].last # heap[p].last =>
                     /\ call'.op = "ioctl" /\ call'.fd = d /\ ~call'.real
                     /\ heap'[p].last = matched_node(d, call'.args[2], call'.args[3])
      ]_vars

\* the same, but for ioctls whose matched node holds the result -2
CursorFrameNoSentinel ==
    [][ \A d \in Fds :
          fdinfo_kept(d) =>
              LET p == fd_map_get(ioctl_wrapped_fds, d).data
                  hit == matched_node(d, call'.args[2], call'.args[3])
              IN
              /\ heap'[p].tree = heap[p].tree
              /\ heap'[p].last # heap[p].last =>
                     /\ call'.op = "ioctl" /\ call'.fd = d
                     /\ heap'[p].last = hit
                     /\ ~call'.real \/ heap[p].tree[hit].res = UNHANDLED
      ]_vars

\* this step is an open(path, ...)
open_step(path) ==
    pc = "run" /\ clock' = clock /\ call'.op = "open" /\ call'.path.path = path /\ call'.real

\* this open starts recording: it was not redirected, its descriptor's device
\* number is the configured target, and the record file is not open yet
starts_recording ==
    /\ call'.real_path.ptr = "path" /\ call'.ret \in Fds
    /\ env.rec_dev_set /\ rdev_of(os_fd'[call'.ret]) = env.rec_dev
    /\ ioctl_record_log = NULL

\* the sidecar ioctl file of a redirected path
sidecar_of(path) == IF path = path_a THEN env.sidecar ELSE "none"

\* this open was redirected to the shadow of a path under /dev/
redirected_dev(path) == call'.real_path.ptr = "buf" /\ strncmp_eq(path, lit_dev_slash, 5)

\* C18: an open that starts recording (descriptor's device number equals the
\* configured target, record file not yet opened) terminates the process if
\* the record-file variable is unset or if a testbed root is configured; an
\* open of a redirected /dev/ path whose sidecar ioctl file exists but parses
\* to an empty or invalid tree terminates the process; when no sidecar file
\* exists the descriptor is registered with no tree and the open succeeds.
C18_FatalMisconfiguration ==
    [][ \A path \in OpenPaths :
          open_step(path) =>
              /\ (starts_recording /\ (~env.rec_file_set \/ ~env.prefix.null)) => pc' = "exited"
              /\ (redirected_dev(path) /\ sidecar_of(path) = "invalid") => pc' = "exited"
              /\ (redirected_dev(path) /\ sidecar_of(path) = "none") =>
                     /\ pc' = "run" /\ call'.ret = call'.real_ret /\ call'.ret \in Fds
                     /\ fd_map_get(ioctl_wrapped_fds', call'.ret).found = 1
                     /\ heap'[fd_map_get(ioctl_wrapped_fds', call'.ret).data].tree = <<>>
      ]_vars

\* an open of a redirected /dev/ path with an invalid sidecar file ended the
\* process
C18_Witness ==
    /\ pc = "exited" /\ call.op = "open" /\ call.real_path.ptr = "buf"
    /\ env.sidecar = "invalid"

\* an open that started recording ended the process: no record file named
C18_WitnessNoFile ==
    /\ pc = "exited" /\ call.op = "open" /\ call.real_path.ptr = "path"
    /\ env.rec_dev_set /\ ~env.rec_file_set /\ env.prefix.null

\* an open that started recording ended the process: a testbed root is set
C18_WitnessRoot ==
    /\ pc = "exited" /\ call.op = "open" /\ call.real_path.ptr = "path"
    /\ env.rec_dev_set /\ env.rec_file_set /\ ~env.prefix.null

\* an open of a redirected /dev/ path without a sidecar file succeeded
C18_WitnessNoSidecar ==
    /\ pc = "run" /\ call.op = "open" /\ call.real_path.ptr = "buf" /\ call.ret \in Fds
    /\ env.sidecar = "none"
    /\ fd_map_get(ioctl_wrapped_fds, call.ret).found = 1
    /\ heap[fd_map_get(ioctl_wrapped_fds, call.ret).data].tree = <<>>

(***************************************************************************)
(* Claims about paths that do not fit the trapper's buffer                 *)
(***************************************************************************)

\* the last call took a path at or below /dev or /sys
call_trapped_tree ==
    /\ call.op \in {"open", "stat"} /\ ~call.path.path.null
    /\ \/ strncmp_eq(call.path.path, lit_dev_slash, 5) \/ strcmp_eq(call.path.path, lit_dev)
       \/ strncmp_eq(call.path.path, lit_sys_slash, 5) \/ strcmp_eq(call.path.path, lit_sys)

\* root and path together, with the terminator, do not fit the buffer
too_long(prefix, path) == prefix.len + strlen(path) + 1 > buf_size

\* C19: for a path under /dev or /sys with a testbed root configured, if
\* root length plus path length does not fit the trapper's fixed buffer, the
\* trapper fails with the name-too-long condition before the disabled-marker
\* and shadow-existence checks are made, and the interposed call returns its
\* failure value without invoking the real function; no truncated shadow
\* path is ever returned.
C19_NameTooLong ==
    /\ (call_trapped_tree /\ ~env.prefix.null /\ too_long(env.prefix, call.path.path)) =>
           /\ \A disabled, shadow \in BOOLEAN :
                  LET r == trap_path(env.prefix, call.path.path, disabled, shadow)
                  IN  r.ret = "NULL" /\ r.errno = "ENAMETOOLONG" /\ ~r.ub
           /\ pc = "run" /\ ~call.real /\ call.ret = -1
    /\ (call.op \in {"open", "stat"} /\ call.real /\ call.real_path.ptr = "buf") =>
           /\ call.real_path.root_len = env.prefix.len
           /\ call.real_path.path = call.path.path
           /\ ~too_long(env.prefix, call.path.path)

\* an open of a /sys path one character too long returned -1 without a real
\* call
C19_Witness ==
    /\ call.op = "open" /\ ~call.real /\ call.ret = -1
    /\ strncmp_eq(call.path.path, lit_sys_slash, 5)
    /\ env.prefix.len + strlen(call.path.path) = buf_size

\* a stat of the longest /sys path that fits was passed on with the whole
\* shadow path
C19_WitnessFits ==
    /\ call.op = "stat" /\ call.real /\ call.real_path.ptr = "buf"
    /\ env.prefix.len + strlen(call.path.path) = buf_size - 1
\* the step is a call of socket() or open() whose real function failed
failed_create == clock' = clock /\ call'.op \in {"socket", "open"} /\ call'.real /\ call'.real_ret = -1

\* C21: when the real socket call for a netlink/uevent request, or the real
\* open of a redirected /dev/ path, returns -1, no entry is added to the
\* wrapped-socket or ioctl registry, and the process is not aborted, however
\* many calls have failed.
C21_FailedCreateNoRegistry ==
    [][ (pc = "run" /\ failed_create) =>
            /\ wrapped_sockets' = wrapped_sockets
            /\ ioctl_wrapped_fds' = ioctl_wrapped_fds
            /\ pc' = "run"
      ]_vars

\* what a lookup of fd in a registry of heap payloads returns is a block that
\* is allocated and is of the registry's kind
payload_live(map, fd, kind) ==
    LET g == fd_map_get(map, fd)
    IN  g.found = 1 => (heap[g.data].live /\ heap[g.data].kind = kind)

\* no lookup in the ioctl registry returns a released struct ioctl_fd_info
IoctlPayloadsLive == \A fd \in FdArgs : payload_live(ioctl_wrapped_fds, fd, "fdinfo")

\* no lookup in the script registry returns a released struct script_record_info
ScriptPayloadsLive == \A fd \in FdArgs : payload_live(script_recorded_fds, fd, "srinfo")

\* the state a recorder has directly after script_record_open()
fresh_srinfo == [free_block EXCEPT !.kind = "srinfo", !.live = TRUE, !.time = clock, !.op = 0]

\* the step is a successful open of a device that is to be script-recorded
opens_recorded ==
    /\ pc = "run" /\ clock' = clock /\ call'.op = "open" /\ call'.ret \in Fds
    /\ env.script_set /\ rdev_of(os_fd'[call'.ret]) = env.script_dev

\* the step is a read, write or close
touches == pc = "run" /\ clock' = clock /\ call'.op \in {"read", "write", "close"}

\* the open registered a newly allocated recorder for the descriptor it returned
reopen_fresh ==
    LET g == fd_map_get(script_recorded_fds', call'.ret)
    IN  /\ pc' = "run"
        /\ g.found = 1
        /\ ~heap[g.data].live
        /\ heap'[g.data] = fresh_srinfo

\* C22: in every reachable state every payload that a registry lookup can
\* return (ioctl descriptor state, script recorder state) has not been
\* released; a read, write or close never reaches released recorder state, so
\* none of them crashes the process; and an open that yields a descriptor
\* number, used before or not, on a recorded device creates fresh recorder
\* state.
C22_NoUseAfterRelease ==
    /\ [](IoctlPayloadsLive /\ ScriptPayloadsLive)
    /\ [][ /\ touches => pc' # "crashed"
           /\ opens_recorded => reopen_fresh
       ]_vars

\* the second and the third part of C22 on their own: each fails as well
NoCrashOnTouch == [][touches => pc' # "crashed"]_vars
ReopenIsFresh == [][opens_recorded => reopen_fresh]_vars
\* the call got past the length check: the path is one that is trapped and
\* root length + path length is smaller than the capacity of buf
passes_check ==
    /\ tp_done /\ ~tp_in.path.null /\ ~tp_in.prefix.null /\ trapped_tree
    /\ strlen(tp_in.path) + tp_in.prefix.len < buf_size

\* the bytes of buf that strcpy(buf + prefix_len, s) writes to end here, the
\* terminator of s included
strcpy_end(prefix_len, s_len) == prefix_len + s_len + 1

\* <root><path> is composed only when no marker <root>/disabled was found
composes_shadow == ~tp_in.disabled

\* <root><path> with its terminator fits in buf
ShadowPathFits ==
    (passes_check /\ composes_shadow) =>
        strcpy_end(tp_in.prefix.len, strlen(tp_in.path)) <= buf_size

\* <root>/disabled with its terminator fits in buf, and nothing was written
\* past the end of buf
MarkerFits ==
    passes_check =>
        /\ strcpy_end(tp_in.prefix.len, Len(lit_disabled)) <= buf_size
        /\ ~tp_out.ub

\* C23: for every root length and path length that pass the length check,
\* every string composed in the fixed buffer, both <root>/disabled and
\* <root><path>, including its terminator, fits within the buffer capacity.
C23_BufferBound == MarkerFits /\ ShadowPathFits

\* with a root short enough for "/disabled" to follow it in buf, both fit
BufferBoundShortRoot ==
    (tp_in.prefix.len + Len(lit_disabled) < buf_size) => (MarkerFits /\ ShadowPathFits)
====
